---- MODULE Spec2Model ----
(***************************************************************************)
(* Model of the prompt-feedback loop of gluchy_obrazfon:                   *)
(*   src/main.py              the loop controller and the seed prompt      *)
(*   src/agents/painter.py    the generate_image tool and the painter agent*)
(*   src/agents/describer.py  ImageDescriber / describe_image              *)
(*                                                                         *)
(* Text is a sequence of one-character strings, so that str.strip(),       *)
(* startswith/endswith and slicing are computed character by character.    *)
(* Fixed pieces of text (the fallback sentences, the task prefix) are kept *)
(* as single multi-character elements of such a sequence.                  *)
(***************************************************************************)
EXTENDS Integers, Sequences, FiniteSets, TLC

VARIABLES
    env,             \* the set of environment variables that are set (non-empty)
    files,           \* the filesystem: path -> file content
    now,             \* the wall clock, in seconds
    pc,              \* position of the running entry point
    error,           \* the exception that ended the run ("none" while running)
    iteration,       \* main: the loop variable `iteration`
    current_prompt,  \* main: `current_prompt`
    image_path,      \* main: `image_path`, what painter_agent.run returned
    agentStep,       \* painter agent: steps used by the current run() call
    agentPath,       \* painter agent: path returned by its latest successful tool call
    result,          \* outcome of the latest describe_image() call (main: of this iteration)
    call,            \* arguments of that call, with the delegate's reply to it
    log              \* observation of the external calls made so far

vars == << env, files, now, pc, error, iteration, current_prompt, image_path,
           agentStep, agentPath, result, call, log >>

----------------------------------------------------------------------------
(* Bounds of the model *)

\* longest text a delegate replies with
MaxReplyLen == 2
\* last second of the wall clock
MaxTime == 1

----------------------------------------------------------------------------
(* Text *)

\* characters str.strip() removes
Whitespace == {" ", "\t", "\n", "\r"}

TextsUpTo(A, n) == UNION { [1..k -> A] : k \in 0..n }

RECURSIVE lstrip(_)
lstrip(s) ==
    IF s = << >> THEN << >>
    ELSE IF Head(s) \in Whitespace THEN lstrip(Tail(s)) ELSE s

RECURSIVE rstrip(_)
rstrip(s) ==
    IF s = << >> THEN << >>
    ELSE IF s[Len(s)] \in Whitespace THEN rstrip(SubSeq(s, 1, Len(s) - 1)) ELSE s

\* str.strip()
strip(s) == rstrip(lstrip(s))

startswith(s, c) == Len(s) >= 1 /\ s[1] = c
endswith(s, c) == Len(s) >= 1 /\ s[Len(s)] = c

\* s[1:-1]
Slice1(s) == SubSeq(s, 2, Len(s) - 1)

\* str.lower() on the characters a suffix is made of here
LowerChar(c) ==
    CASE c = "P" -> "p"
      [] c = "N" -> "n"
      [] c = "G" -> "g"
      [] c = "J" -> "j"
      [] c = "A" -> "a"
      [] OTHER -> c

lower(s) == [i \in 1..Len(s) |-> LowerChar(s[i])]

\* str.endswith(t) for a text t
endswithText(s, t) ==
    Len(s) >= Len(t) /\ SubSeq(s, Len(s) - Len(t) + 1, Len(s)) = t

\* bool(x) of a text
Truthy(s) == s # << >>

----------------------------------------------------------------------------
(* Environment (os.getenv): a variable is in env when it is set to a       *)
(* non-empty value; its value is represented by its name.                  *)
(* AZURE_OPENAI_API_VERSION always has a default and decides nothing.      *)

ENDPOINT == "AZURE_OPENAI_ENDPOINT"
API_KEY == "AZURE_OPENAI_API_KEY"
DEPLOYMENT == "AZURE_OPENAI_DEPLOYMENT_NAME"
VISION_DEPLOYMENT == "AZURE_OPENAI_VISION_DEPLOYMENT_NAME"
DALLE_ENDPOINT == "AZURE_DALLE_ENDPOINT"
DALLE_API_KEY == "AZURE_DALLE_API_KEY"

EnvVars == {ENDPOINT, API_KEY, DEPLOYMENT, VISION_DEPLOYMENT, DALLE_ENDPOINT, DALLE_API_KEY}

\* the value None
None == "None"

getenv(e, name) == IF name \in e THEN name ELSE None

\* all([...]) over values returned by getenv
all(values) == \A v \in values : v # None

----------------------------------------------------------------------------
(* Filesystem: paths and image files *)

PngSuffix == << ".", "p", "n", "g" >>

Suffixes == { PngSuffix, << ".", "P", "N", "G" >>, << ".", "a", "p", "n", "g" >>,
              << ".", "j", "p", "g" >>, << >> }

\* generate_image: output_path / f"image_{timestamp}.png"
ImagePath(timestamp) == [stamp |-> timestamp, suffix |-> PngSuffix]

\* a text that names no file (an answer of the agent that is not a path of a file)
NoSuchPath == [stamp |-> -1, suffix |-> << >>]

\* what a file holds, as PIL sees it: decode = "ok" (Image.open and img.load
\* succeed), "truncated" (Image.open succeeds, img.load raises OSError),
\* "unidentified" (Image.open raises UnidentifiedImageError)
Contents ==
    { [decode |-> "ok", width |-> 1024, height |-> 1024, mode |-> "RGB"],
      [decode |-> "ok", width |-> 512, height |-> 256, mode |-> "RGBA"],
      [decode |-> "truncated", width |-> 1024, height |-> 1024, mode |-> "RGB"],
      [decode |-> "unidentified", width |-> 0, height |-> 0, mode |-> "" ] }

NoFiles == [p \in {} |-> CHOOSE c \in Contents : TRUE]

\* open(filepath, "wb") ... f.write(content): creates or overwrites
WriteFile(fs, path, content) ==
    [p \in DOMAIN fs \cup {path} |-> IF p = path THEN content ELSE fs[p]]

----------------------------------------------------------------------------
(* Replies of the captioning delegate (client.responses.create) *)

ReplyAlphabet == {" ", "a"}

ReplyTexts == TextsUpTo(ReplyAlphabet, MaxReplyLen)

Detail(type, text) == [dict |-> TRUE, type |-> type, text |-> text]
NonDictDetail == [dict |-> FALSE, type |-> "", text |-> << >>]
Item(content) == [dict |-> TRUE, list |-> TRUE, content |-> content]
NonDictItem == [dict |-> FALSE, list |-> FALSE, content |-> << >>]
NoContentItem == [dict |-> TRUE, list |-> FALSE, content |-> << >>]

\* response.output of replies that have no output_text attribute
Outputs ==
    { << Item(<< Detail("output_text", << " ", "a" >>), Detail("reasoning", << "a" >>),
                 Detail("output_text", << "a", " " >>) >>) >>,
      << Item(<< Detail("output_text", << " " >>) >>), NoContentItem >>,
      << NonDictItem, Item(<< Detail("output_text", << "a" >>) >>) >>,
      << Item(<< NonDictDetail >>) >>,
      << >> }

\* kind "raise": the call raises an Exception
\* kind "output_text": the response has the attribute output_text = text
\* kind "output": no output_text; response.output is the list `output`
\* kind "no_output": no output_text; response.output is not a list
Replies ==
    { [kind |-> "raise", text |-> << >>, output |-> << >>] }
    \cup { [kind |-> "output_text", text |-> t, output |-> << >>] : t \in ReplyTexts }
    \cup { [kind |-> "output", text |-> << >>, output |-> o] : o \in Outputs }
    \cup { [kind |-> "no_output", text |-> << >>, output |-> << >>] }

----------------------------------------------------------------------------
(* src/agents/describer.py *)

DescriberDeployment_VisionOnly(e) == getenv(e, VISION_DEPLOYMENT)

\* ImageDescriber.__init__: self._deployment_name
DescriberDeployment(e) ==
    IF getenv(e, VISION_DEPLOYMENT) # None THEN getenv(e, VISION_DEPLOYMENT)
    ELSE getenv(e, DEPLOYMENT)

\* ImageDescriber.__init__: whether self._client is an AzureOpenAI client
DescriberClient(e) ==
    all({getenv(e, ENDPOINT), getenv(e, API_KEY), DescriberDeployment(e)})

DefaultInstruction ==
    << "You are an observant visual assistant. Describe the main elements, colors, and context ",
       "of the provided image in two or three concise sentences." >>

\* the optional argument `prompt`
NoPrompt == [some |-> FALSE, text |-> << >>]
SomePrompt(t) == [some |-> TRUE, text |-> t]
PromptArgs == { NoPrompt, SomePrompt(<< >>), SomePrompt(<< "Describe the animals." >>) }

\* base_prompt = prompt or (default)
BasePrompt(prompt) ==
    IF prompt.some /\ Truthy(prompt.text) THEN prompt.text ELSE DefaultInstruction

\* the inner loop: for detail in content
RECURSIVE DetailsText(_)
DetailsText(content) ==
    IF content = << >> THEN [raised |-> FALSE, text |-> << >>]
    ELSE LET detail == Head(content)
             rest == DetailsText(Tail(content))
         IN  IF ~detail.dict THEN [raised |-> TRUE, text |-> << >>]
             ELSE IF rest.raised THEN rest
             ELSE IF detail.type = "output_text"
                  THEN [raised |-> FALSE, text |-> detail.text \o rest.text]
                  ELSE rest

\* the outer loop: for item in output
RECURSIVE ItemsText(_)
ItemsText(output) ==
    IF output = << >> THEN [raised |-> FALSE, text |-> << >>]
    ELSE LET item == Head(output)
             here == IF item.dict /\ item.list THEN DetailsText(item.content)
                     ELSE [raised |-> FALSE, text |-> << >>]
             rest == ItemsText(Tail(output))
         IN  IF here.raised THEN here
             ELSE IF rest.raised THEN rest
             ELSE [raised |-> FALSE, text |-> here.text \o rest.text]

\* lines 90-102: `description` as it stands before `if description:`
Description(reply) ==
    CASE reply.kind = "output_text" -> [raised |-> FALSE, text |-> reply.text]
      [] reply.kind = "output" ->
            LET got == ItemsText(reply.output)
            IN  [raised |-> got.raised, text |-> strip(got.text)]
      [] OTHER -> [raised |-> FALSE, text |-> << >>]

FallbackCaption_Swapped(img) ==
    << "The image is ", ToString(img.height), " by ", ToString(img.width),
       " pixels with ", img.mode, " color mode.",
       " A detailed description could not be generated automatically. ",
       "Please try again once the Azure OpenAI configuration is available." >>

\* lines 111-115
FallbackCaption(img) ==
    << "The image is ", ToString(img.width), " by ", ToString(img.height),
       " pixels with ", img.mode, " color mode.",
       " A detailed description could not be generated automatically. ",
       "Please try again once the Azure OpenAI configuration is available." >>

Raised(exc) ==
    [outcome |-> "raise", exc |-> exc, value |-> << >>, delegateCalled |-> FALSE,
     logged |-> FALSE, instruction |-> << >>, model |-> None]

Returned(value, called, logged, instruction, model) ==
    [outcome |-> "return", exc |-> "none", value |-> value, delegateCalled |-> called,
     logged |-> logged, instruction |-> instruction, model |-> model]

ReturnCaption_NoStrip(description) == description

\* line 105: return description.strip()
ReturnCaption(description) == strip(description)

\* lines 90-105, 111-115: a response has come back
DescribeResponse(img, instruction, model, reply) ==
    LET d == Description(reply)
    IN  IF d.raised
        THEN Returned(FallbackCaption(img), TRUE, TRUE, instruction, model)
        ELSE IF Truthy(d.text)
             THEN Returned(ReturnCaption(d.text), TRUE, FALSE, instruction, model)
             ELSE Returned(FallbackCaption(img), TRUE, FALSE, instruction, model)

DescribeWithClient_Propagate(img, instruction, model, reply) ==
    IF reply.kind = "raise"
    THEN [Raised("APIError") EXCEPT !.delegateCalled = TRUE]
    ELSE DescribeResponse(img, instruction, model, reply)

DescribeWithClient_RaiseOnEmpty(img, instruction, model, reply) ==
    IF reply.kind = "raise"
    THEN Returned(FallbackCaption(img), TRUE, TRUE, instruction, model)
    ELSE IF ~Description(reply).raised /\ ~Truthy(Description(reply).text)
         THEN [Raised("ValueError: empty description") EXCEPT !.delegateCalled = TRUE]
         ELSE DescribeResponse(img, instruction, model, reply)

\* lines 72-115: the branch taken when self._client is set; an Exception of
\* the delegate call is printed and the fallback caption returned
DescribeWithClient(img, instruction, model, reply) ==
    IF reply.kind = "raise"
    THEN Returned(FallbackCaption(img), TRUE, TRUE, instruction, model)
    ELSE DescribeResponse(img, instruction, model, reply)

\* lines 56-62: Image.open / img.load
OpenImage(img) ==
    CASE img.decode = "unidentified" -> "ValueError: Unable to open image"
      [] img.decode = "truncated" -> "OSError"
      [] OTHER -> "ok"

\* line 64: path.suffix.lower().endswith("png")
IsPngSuffix(suffix) == endswithText(lower(suffix), << "p", "n", "g" >>)

\* ImageDescriber().describe(image_path, prompt=prompt) in environment e on
\* filesystem fs, the delegate (if it is called) answering `reply`
describe(e, fs, path, prompt, reply) ==
    IF path \notin DOMAIN fs THEN Raised("FileNotFoundError")
    ELSE LET img == fs[path]
         IN  IF OpenImage(img) # "ok" THEN Raised(OpenImage(img))
             ELSE IF ~IsPngSuffix(path.suffix)
                  THEN Raised("ValueError: Expected a PNG image")
             ELSE IF DescriberClient(e)
                  THEN DescribeWithClient(img, BasePrompt(prompt),
                                          DescriberDeployment(e), reply)
                  ELSE Returned(FallbackCaption(img), FALSE, FALSE,
                                BasePrompt(prompt), None)

\* describe_image
describe_image(e, fs, path, prompt, reply) == describe(e, fs, path, prompt, reply)

NoResult == Raised("none")
NoCall == [path |-> NoSuchPath, prompt |-> NoPrompt, reply |-> CHOOSE r \in Replies : r.kind = "raise"]

----------------------------------------------------------------------------
(* src/agents/painter.py *)

\* ToolCallingAgent(..., max_steps=10, ...)
max_steps == 10

\* what a download of size="1024x1024" can hold
Downloads == { c \in Contents : c.decode = "ok" => c.width = 1024 /\ c.height = 1024 }

\* what the image delegate and the download do in one generate_image call
GenerateOutcomes == {"ok", "delegate_error", "transfer_error"}

\* generate_image(prompt, output_dir) at time t in environment e on filesystem fs:
\* what it raises or returns, and the filesystem it leaves
generate_image(e, fs, t, outcome, content) ==
    IF ~all({getenv(e, DALLE_ENDPOINT), getenv(e, DALLE_API_KEY)})
    THEN [exc |-> "ValueError", path |-> NoSuchPath, files |-> fs]
    ELSE IF outcome # "ok"
         THEN [exc |-> "RuntimeError", path |-> NoSuchPath, files |-> fs]
         ELSE [exc |-> "none", path |-> ImagePath(t),
               files |-> WriteFile(fs, ImagePath(t), content)]

\* create_painter_agent(): the configuration check made when model is None
create_painter_agent(e) ==
    IF ~all({getenv(e, ENDPOINT), getenv(e, API_KEY), getenv(e, DEPLOYMENT)})
    THEN "ValueError" ELSE "none"

----------------------------------------------------------------------------
(* src/main.py *)

\* replies of the text-completion delegate to the seed request
SeedContents ==
    { << "a" >>,
      << " ", "a", " ", "a", "\n" >>,
      << "\"", "a", "\"" >>,
      << " ", "'", "a", "'" >>,
      << "\"", "'", "a", "'", "\"" >>,
      << "\"" >>,
      << "'", "a" >> }

\* lines 57-62: strip, then remove wrapping quotes
CleanPrompt(content) ==
    LET p0 == strip(content)
        p1 == IF startswith(p0, "\"") /\ endswith(p0, "\"") THEN Slice1(p0) ELSE p0
        p2 == IF startswith(p1, "'") /\ endswith(p1, "'") THEN Slice1(p1) ELSE p1
    IN  p2

\* generate_random_initial_prompt(): ok = FALSE when the completion call raises
generate_random_initial_prompt(e, ok, content) ==
    IF ~all({getenv(e, ENDPOINT), getenv(e, API_KEY), getenv(e, DEPLOYMENT)})
    THEN [exc |-> "ValueError", called |-> FALSE, prompt |-> << >>]
    ELSE IF ~ok
         THEN [exc |-> "RuntimeError", called |-> TRUE, prompt |-> << >>]
         ELSE [exc |-> "none", called |-> TRUE, prompt |-> CleanPrompt(content)]

\* f"Generate an image: {current_prompt}"
TaskFor(prompt) == << "Generate an image: " >> \o prompt

\* for iteration in range(1, 5)
range_stop == 5

NextPrompt_Stale(description) == current_prompt

\* current_prompt = description
NextPrompt(description) == description

----------------------------------------------------------------------------
(* Observation of the calls made *)

\* seedCalls: calls of the text-completion delegate for the seed prompt;
\*            seed: the prompt generate_random_initial_prompt returned
\* runs:      calls of painter_agent.run;  task: the argument of the latest one
\* tool:      while painter_agent.run is in progress, what its latest
\*            generate_image call did ("none" before the first one)
\* describes: calls of describe_image;  captions: those that returned;
\*            caption: the latest value returned
\* runRaised: painter_agent.run has raised
NoLog ==
    [seedCalls |-> 0, seed |-> << >>, runs |-> 0, tool |-> "none", describes |-> 0,
     captions |-> 0,
     task |-> << >>, caption |-> << >>, runRaised |-> FALSE]

----------------------------------------------------------------------------
(* python main.py *)

Crash(exc) ==
    /\ pc' = "crashed"
    /\ error' = exc

Init ==
    /\ env \in SUBSET EnvVars
    /\ files = NoFiles
    /\ now = 0
    /\ pc = "main"
    /\ error = "none"
    /\ iteration = 0
    /\ current_prompt = << >>
    /\ image_path = NoSuchPath
    /\ agentStep = 0
    /\ agentPath = NoSuchPath
    /\ result = NoResult
    /\ call = NoCall
    /\ log = NoLog

MainCheckConfig_NoCheck ==
    /\ pc = "main"
    /\ pc' = "create_painter_agent"
    /\ UNCHANGED << env, files, now, error, iteration, current_prompt, image_path,
                    agentStep, agentPath, result, call, log >>

\* main.py lines 74-84
MainCheckConfig ==
    /\ pc = "main"
    /\ IF all({getenv(env, ENDPOINT), getenv(env, API_KEY), getenv(env, DEPLOYMENT)})
       THEN pc' = "create_painter_agent" /\ error' = error
       ELSE Crash("ValueError")
    /\ UNCHANGED << env, files, now, iteration, current_prompt, image_path,
                    agentStep, agentPath, result, call, log >>

\* main.py line 87
CreatePainterAgent ==
    /\ pc = "create_painter_agent"
    /\ IF create_painter_agent(env) = "none"
       THEN pc' = "seed" /\ error' = error
       ELSE Crash(create_painter_agent(env))
    /\ UNCHANGED << env, files, now, iteration, current_prompt, image_path,
                    agentStep, agentPath, result, call, log >>

\* main.py lines 90-99
SeedPrompt ==
    /\ pc = "seed"
    /\ \E ok \in BOOLEAN, content \in SeedContents :
          LET r == generate_random_initial_prompt(env, ok, content)
          IN  /\ log' = IF r.called
                        THEN [log EXCEPT !.seedCalls = @ + 1, !.seed = r.prompt]
                        ELSE log
              /\ IF r.exc = "none"
                 THEN /\ current_prompt' = r.prompt
                      /\ pc' = "loop"
                      /\ error' = error
                 ELSE /\ current_prompt' = current_prompt
                      /\ Crash(r.exc)
    /\ UNCHANGED << env, files, now, iteration, image_path, agentStep, agentPath,
                    result, call >>

\* main.py lines 102-112: the next iteration starts and calls painter_agent.run
LoopNext ==
    /\ pc = "loop"
    /\ iteration + 1 < range_stop
    /\ iteration' = iteration + 1
    /\ agentStep' = 0
    /\ agentPath' = NoSuchPath
    /\ log' = [log EXCEPT !.runs = @ + 1, !.task = TaskFor(current_prompt),
                           !.tool = "none"]
    /\ result' = NoResult
    /\ call' = NoCall
    /\ pc' = "painter"
    /\ UNCHANGED << env, files, now, error, current_prompt, image_path >>

\* main.py lines 126-128
LoopDone ==
    /\ pc = "loop"
    /\ ~(iteration + 1 < range_stop)
    /\ pc' = "done"
    /\ UNCHANGED << env, files, now, error, iteration, current_prompt, image_path,
                    agentStep, agentPath, result, call, log >>

\* one step of painter_agent.run in which the agent invokes the generate_image
\* tool; an exception of the tool is kept by the agent as an observation of that
\* step and the run goes on to its next step
AgentToolCall ==
    /\ pc = "painter"
    /\ agentStep < max_steps
    /\ \E t \in now..MaxTime, outcome \in GenerateOutcomes, content \in Downloads :
          LET r == generate_image(env, files, t, outcome, content)
          IN  /\ now' = t
              /\ files' = r.files
              /\ agentPath' = IF r.exc = "none" THEN r.path ELSE agentPath
              /\ log' = [log EXCEPT !.tool = IF r.exc = "none" THEN "ok" ELSE r.exc]
    /\ agentStep' = agentStep + 1
    /\ UNCHANGED << env, pc, error, iteration, current_prompt, image_path, result, call >>

\* painter_agent.run returns the agent's final answer: the path its tool
\* returned, or some other text; after max_steps steps the answer is forced
AgentFinalAnswer ==
    /\ pc = "painter"
    /\ \E answer \in {agentPath, NoSuchPath} : image_path' = answer
    /\ agentStep' = 0
    /\ agentPath' = NoSuchPath
    /\ log' = [log EXCEPT !.tool = "none"]
    /\ pc' = "describer"
    /\ UNCHANGED << env, files, now, error, iteration, current_prompt, result, call >>

AgentRunRaises_Swallowed ==
    /\ pc = "painter"
    /\ agentStep < max_steps
    /\ pc' = "describer"
    /\ log' = [log EXCEPT !.runRaised = TRUE, !.tool = "none"]
    /\ UNCHANGED << env, files, now, error, iteration, current_prompt, image_path,
                    agentStep, agentPath, result, call >>

\* painter_agent.run raises (the agent's own model call fails): main.py line 112
\* has no handler
AgentRunRaises ==
    /\ pc = "painter"
    /\ agentStep < max_steps
    /\ Crash("AgentGenerationError")
    /\ log' = [log EXCEPT !.runRaised = TRUE]
    /\ UNCHANGED << env, files, now, iteration, current_prompt, image_path,
                    agentStep, agentPath, result, call >>

\* main.py lines 117-122
Describer ==
    /\ pc = "describer"
    /\ \E reply \in Replies :
          LET r == describe_image(env, files, image_path, NoPrompt, reply)
          IN  /\ result' = r
              /\ call' = [path |-> image_path, prompt |-> NoPrompt, reply |-> reply]
              /\ IF r.outcome = "return"
                 THEN /\ current_prompt' = NextPrompt(r.value)
                      /\ pc' = "loop"
                      /\ error' = error
                      /\ log' = [log EXCEPT
                                    !.describes = @ + 1,
                                    !.captions = @ + 1,
                                    !.caption = r.value]
                 ELSE /\ current_prompt' = current_prompt
                      /\ Crash(r.exc)
                      /\ log' = [log EXCEPT !.describes = @ + 1]
    /\ UNCHANGED << env, files, now, iteration, image_path, agentStep, agentPath >>

Next ==
    \/ MainCheckConfig
    \/ CreatePainterAgent
    \/ SeedPrompt
    \/ LoopNext
    \/ LoopDone
    \/ AgentToolCall
    \/ AgentFinalAnswer
    \/ AgentRunRaises
    \/ Describer

Spec == Init /\ [][Next]_vars

----------------------------------------------------------------------------
(* describe_image used on its own, on any file, in any environment *)

DescriberEnvVars == {ENDPOINT, API_KEY, DEPLOYMENT, VISION_DEPLOYMENT}

InitDescribe ==
    /\ env \in SUBSET DescriberEnvVars
    /\ files \in {NoFiles}
          \cup { WriteFile(NoFiles, [stamp |-> 0, suffix |-> PngSuffix], c) : c \in Contents }
          \cup { WriteFile(NoFiles, [stamp |-> 0, suffix |-> sfx], c) :
                    sfx \in Suffixes, c \in Downloads }
    /\ now = 0
    /\ pc = "library"
    /\ error = "none"
    /\ iteration = 0
    /\ current_prompt = << >>
    /\ image_path = NoSuchPath
    /\ agentStep = 0
    /\ agentPath = NoSuchPath
    /\ result = NoResult
    /\ call = NoCall
    /\ log = NoLog

\* describe_image(path, prompt=prompt)
DescribeCall ==
    /\ pc = "library"
    /\ \E path \in DOMAIN files \cup {NoSuchPath}, prompt \in PromptArgs, reply \in Replies :
          LET r == describe_image(env, files, path, prompt, reply)
          IN  /\ result' = r
              /\ call' = [path |-> path, prompt |-> prompt, reply |-> reply]
    /\ UNCHANGED << env, files, now, pc, error, iteration, current_prompt, image_path,
                    agentStep, agentPath, log >>

NextDescribe == DescribeCall

SpecDescribe == InitDescribe /\ [][NextDescribe]_vars

----------------------------------------------------------------------------
(* Vocabulary of the claims *)

\* (a) the text-completion configuration, (c) the image-synthesis configuration
TextConfigured == {ENDPOINT, API_KEY, DEPLOYMENT} \subseteq env
ImageConfigured == {DALLE_ENDPOINT, DALLE_API_KEY} \subseteq env

\* a captioning delegate is configured
CaptionConfigured ==
    /\ ENDPOINT \in env
    /\ API_KEY \in env
    /\ VISION_DEPLOYMENT \in env \/ DEPLOYMENT \in env

\* describe_image has been called; result and call are that call's
Described == result # NoResult

\* the path of the latest call names an existing, decodable PNG file
DecodablePng ==
    /\ call.path \in DOMAIN files
    /\ files[call.path].decode = "ok"
    /\ call.path.suffix \in { << ".", "p", "n", "g" >>, << ".", "P", "N", "G" >> }

\* the deterministic metadata caption of an image
MetadataCaption(width, height, mode) ==
    << "The image is ", ToString(width), " by ", ToString(height), " pixels with ",
       mode, " color mode.",
       " A detailed description could not be generated automatically. ",
       "Please try again once the Azure OpenAI configuration is available." >>

CaptionOfCalledFile ==
    MetadataCaption(files[call.path].width, files[call.path].height, files[call.path].mode)

\* v is s with its leading and trailing whitespace removed
IsTrimOf(v, s) ==
    \E a \in 0..Len(s), b \in 0..Len(s) :
        /\ a + b <= Len(s)
        /\ v = SubSeq(s, a + 1, Len(s) - b)
        /\ \A i \in 1..a : s[i] \in Whitespace
        /\ \A i \in (Len(s) - b + 1)..Len(s) : s[i] \in Whitespace
        /\ v # << >> => (v[1] \notin Whitespace /\ v[Len(v)] \notin Whitespace)

----------------------------------------------------------------------------
----------------------------------------------------------------------------
(* C2: for an existing, decodable PNG path with a captioning delegate       *)
(* configured, a delegate call that raises is logged and describe returns   *)
(* the deterministic fallback caption; the exception does not propagate.     *)
C2_DelegateErrorDegrades ==
    (Described /\ DecodablePng /\ CaptionConfigured /\ call.reply.kind = "raise")
        => /\ result.outcome = "return"
           /\ result.exc = "none"
           /\ result.delegateCalled
           /\ result.logged
           /\ result.value = CaptionOfCalledFile

C2_Witness ==
    /\ Described /\ DecodablePng /\ CaptionConfigured /\ call.reply.kind = "raise"
    /\ result.logged
    /\ result.value = MetadataCaption(512, 256, "RGBA")

----------------------------------------------------------------------------
(* C3, as stated: once a generate_image call has failed, the run aborts: the *)
(* only step that follows is the error leaving the Controller (no further    *)
(* generate_image call, no describe_image call, no later iteration).         *)
C3_Original ==
    [][log.tool \in {"ValueError", "RuntimeError"} => pc' = "crashed"]_vars

(* C3, amended: a failure of generate_image stays inside painter_agent.run,  *)
(* which is still in progress after it and has used at most max_steps = 10   *)
(* steps; an exception that leaves painter_agent.run in iteration k aborts   *)
(* the run: no describe_image call is made for iteration k and no later      *)
(* iteration starts.                                                         *)
C3_Amended ==
    /\ log.tool \in {"ValueError", "RuntimeError"}
          => pc \in {"painter", "crashed"} /\ agentStep \in 1..10
    /\ log.runRaised
          => /\ pc = "crashed"
             /\ error = "AgentGenerationError"
             /\ log.runs = iteration
             /\ log.describes = iteration - 1
             /\ ~Described

\* painter_agent.run raised in iteration 2, after generate_image had failed in
\* every one of at least two steps of that run
C3_Witness ==
    /\ log.runRaised
    /\ iteration = 2
    /\ agentStep >= 2
    /\ agentPath = NoSuchPath
    /\ log.tool = "RuntimeError"

----------------------------------------------------------------------------
(* C4, as stated: every describe_image call gives the Controller a caption.  *)
C4_Original == log.captions = log.describes

(* C4, amended: describe_image returns a caption, and the Controller goes on *)
(* with it as the current prompt, exactly when the value painter_agent.run   *)
(* returned names an existing, decodable PNG file, whatever the captioning   *)
(* delegate does; otherwise the input error of describe leaves main and the  *)
(* run ends with it.                                                         *)
C4_Amended ==
    Described =>
        /\ result.outcome = "return" <=> DecodablePng
        /\ result.outcome = "return"
              => /\ pc \in {"loop", "done"}
                 /\ error = "none"
                 /\ current_prompt = result.value
                 /\ log.captions = iteration
        /\ result.outcome = "raise"
              => /\ pc = "crashed"
                 /\ error = result.exc
                 /\ error \in {"FileNotFoundError", "OSError",
                               "ValueError: Unable to open image"}
                 /\ log.captions = iteration - 1

\* the captioning delegate failed in iteration 1 and the loop goes on
C4_Witness ==
    /\ Described
    /\ call.reply.kind = "raise"
    /\ result.logged
    /\ pc = "loop"
    /\ iteration = 1
    /\ ENABLED LoopNext

----------------------------------------------------------------------------
(* C5, as stated: with (a) or (c) absent the run makes no seed-prompt call   *)
(* and starts no iteration.                                                  *)
C5_Original ==
    (~TextConfigured \/ ~ImageConfigured) => log.seedCalls = 0 /\ log.runs = 0

(* C5, amended: with (a) absent the run fails with ValueError in main's own  *)
(* check, before the painter agent is created, before the seed-prompt call   *)
(* and before any iteration; (c) is checked only inside generate_image, so   *)
(* its ValueError is raised during an iteration's painter_agent.run, after   *)
(* the seed-prompt call has been made.                                       *)
C5_Amended ==
    /\ ~TextConfigured
          => /\ pc \in {"main", "crashed"}
             /\ pc = "crashed" => error = "ValueError"
             /\ log.seedCalls = 0
             /\ log.runs = 0
    /\ log.tool = "ValueError"
          => /\ ~ImageConfigured
             /\ TextConfigured
             /\ log.seedCalls = 1
             /\ log.runs >= 1
    /\ (TextConfigured /\ pc \notin {"main", "create_painter_agent", "seed"})
          => log.seedCalls = 1

\* (c) is absent and its ValueError is raised in iteration 1, after the seed call
C5_Witness ==
    /\ ~ImageConfigured
    /\ log.tool = "ValueError"
    /\ log.seedCalls = 1
    /\ iteration = 1

----------------------------------------------------------------------------
(* C6, as stated: with (a) and (c) present and the vision deployment unset,  *)
(* every describe_image call of the loop returns the metadata caption        *)
(* without calling a captioning delegate.                                    *)
C6_Original ==
    (TextConfigured /\ ImageConfigured /\ VISION_DEPLOYMENT \notin env
        /\ Described /\ result.outcome = "return")
        => ~result.delegateCalled /\ result.value = CaptionOfCalledFile

(* C6, amended: the captioning delegate shares the endpoint and key of (a)   *)
(* and falls back to the deployment of (a) when the vision deployment is     *)
(* unset; so in every run that passes the startup check a captioning         *)
(* delegate is configured, and every describe_image call that returns has    *)
(* called it, with the vision deployment when set and the text deployment    *)
(* otherwise.                                                                *)
C6_Amended ==
    /\ pc \notin {"main", "crashed"} => CaptionConfigured
    /\ (Described /\ result.outcome = "return")
          => /\ result.delegateCalled
             /\ result.model = IF VISION_DEPLOYMENT \in env
                               THEN "AZURE_OPENAI_VISION_DEPLOYMENT_NAME"
                               ELSE "AZURE_OPENAI_DEPLOYMENT_NAME"

\* the vision deployment is unset and the delegate was called with the text one
C6_Witness ==
    /\ VISION_DEPLOYMENT \notin env
    /\ Described
    /\ result.outcome = "return"
    /\ result.delegateCalled
    /\ result.model = "AZURE_OPENAI_DEPLOYMENT_NAME"

----------------------------------------------------------------------------
(* C7: for every existing path whose file fails to decode, describe raises   *)
(* ValueError 'Unable to open image' and does not call the delegate.         *)
C7_Claim ==
    (Described /\ call.path \in DOMAIN files /\ files[call.path].decode # "ok")
        => /\ result.outcome = "raise"
           /\ result.exc = "ValueError: Unable to open image"
           /\ ~result.delegateCalled

----------------------------------------------------------------------------
----------------------------------------------------------------------------
(* C9: for an existing, decodable PNG path with no captioning delegate       *)
(* configured, describe calls no delegate and returns the template filled    *)
(* with the width, height and color mode of that image.                      *)
C9_DegradedCaption ==
    (Described /\ DecodablePng /\ ~CaptionConfigured)
        => /\ result.outcome = "return"
           /\ ~result.delegateCalled
           /\ ~result.logged
           /\ result.value = CaptionOfCalledFile

C9_Witness ==
    /\ Described /\ DecodablePng /\ ~CaptionConfigured
    /\ result.value =
          << "The image is ", "512", " by ", "256", " pixels with ", "RGBA", " color mode.",
             " A detailed description could not be generated automatically. ",
             "Please try again once the Azure OpenAI configuration is available." >>

----------------------------------------------------------------------------
(* C10: every caption describe returns is a non-empty string, so the prompt  *)
(* of the next iteration is never empty; an empty or whitespace-only reply   *)
(* gives the fallback caption.                                               *)
C10_Claim ==
    (Described /\ result.outcome = "return")
        => /\ result.value # << >>
           /\ current_prompt # << >>
           /\ (call.reply.kind = "output_text" /\ strip(call.reply.text) = << >>)
                 => result.value = CaptionOfCalledFile

====
